---- MODULE Spec2Model ----
(***************************************************************************)
(* The retrieval kernel of the RAG notebooks: fixed-window chunking         *)
(* (chunk_text, chunk_text_with_headers), cosine-similarity top-k search    *)
(* (semantic_search, retrieve_relevant_chunks) and the breakpoint           *)
(* selection of the semantic-chunking notebook (compute_breakpoints,        *)
(* split_into_chunks), cosine_similarity in float64, and the two pipelines *)
(* step by step with their provider calls.                                 *)
(*                                                                         *)
(* Python values are modelled as follows.  A str is a sequence of           *)
(* one-character strings, a list is a sequence; Python indices are          *)
(* 0-based, so element i of a list s is s[i + 1] here.  An embedding is a   *)
(* pair of integers whose Euclidean norm is an integer, and a cosine        *)
(* similarity c is held exactly as the integer 50 * c; cosine_similarity    *)
(* on its own takes any pair of integers and rounds as float64 does.  A     *)
(* raised exception is recorded in err, with pc = "error".                  *)
(***************************************************************************)
EXTENDS Integers, Sequences, FiniteSets

VARIABLES
    pc,               \* "ready" before the call, then "done" or "error"
    fn,               \* the function that was called
    err,              \* the exception the call raised, "none" otherwise
    text, n, overlap, \* arguments of chunk_text / chunk_text_with_headers
    chunks,           \* what the chunking call returned
    query_embedding,  \* the embedding the provider returns for the query
    text_chunks,      \* the chunk list given to a search
    embeddings,       \* its embeddings: records [embedding, header_embedding]
    k,                \* the k given to a search
    top_indices,      \* the 0-based chunk indices a search selected, in order
    result,           \* what the search returned
    similarities,     \* argument of compute_breakpoints
    method, threshold,
    breakpoints,      \* what compute_breakpoints returned
    percentile_of_empty, \* what the installed np.percentile does with []
    sentences,        \* the sentence list given to split_into_chunks
    chunk_slices,     \* the slice of sentences each chunk was joined from
    split_chunks,     \* what split_into_chunks returned
    vector1, vector2, \* arguments of cosine_similarity
    cosine,           \* what cosine_similarity returned
    sentence_embeddings, \* the embeddings of the sentences, in sentence order
    provider_calls,   \* the calls made to the provider so far, in order
    text_embedding    \* the embedding loop's text_embedding

chunkVars == <<text, n, overlap, chunks>>
searchVars == <<query_embedding, text_chunks, embeddings, k, top_indices, result>>
breakVars ==
    <<similarities, method, threshold, breakpoints, percentile_of_empty>>
splitVars == <<sentences, chunk_slices, split_chunks>>
cosVars == <<vector1, vector2, cosine>>
adjVars == <<sentence_embeddings>>
pipeVars == <<provider_calls, text_embedding>>
vars ==
    <<pc, fn, err, chunkVars, searchVars, breakVars, splitVars, cosVars,
      adjVars, pipeVars>>

(***************************************************************************)
(* Bounds of the model.                                                    *)
(***************************************************************************)
MaxTextLen == 10  \* texts of distinct letters have up to this many characters
MaxRepLen == 3    \* texts over {a, b} have up to this many characters
MaxN == 4         \* n and overlap range over -1 .. MaxN
MaxChunks == 3    \* a search is given up to this many chunks
MaxK == 4         \* k ranges over -1 .. MaxK
MaxSims == 4      \* compute_breakpoints is given up to this many similarities
MaxSplitLen == 5  \* texts split into sentences have up to this many characters
MaxBreakpoints == 2 \* split_into_chunks is given up to this many breakpoints
MaxBreakpoint == 3  \* each of them in -1 .. MaxBreakpoint
MaxCoord == 4     \* coordinates of cosine_similarity's vectors: -MaxCoord .. MaxCoord
MaxSentences == 4 \* up to this many sentence embeddings
MaxPipeLen == 3   \* the pipelines chunk texts of up to this many characters
MaxPipeN == 2     \* with n in 1 .. MaxPipeN and overlap in 0 .. MaxPipeN
MaxPipeK == 2     \* and search with k in 0 .. MaxPipeK
MaxSearches == 2  \* up to this many searches over one corpus

Min(a, b) == IF a < b THEN a ELSE b
Max(a, b) == IF a > b THEN a ELSE b

(***************************************************************************)
(* Python built-ins.                                                       *)
(***************************************************************************)
\* s[lo:hi] for integers lo, hi: a negative bound counts from the end, and
\* both bounds are clipped to 0 .. len(s).
PySlice(s, lo, hi) ==
    LET len == Len(s)
        l == IF lo < 0 THEN Max(lo + len, 0) ELSE Min(lo, len)
        h == IF hi < 0 THEN Max(hi + len, 0) ELSE Min(hi, len)
    IN  IF l >= h THEN <<>> ELSE SubSeq(s, l + 1, h)

\* s[lo:]
PySliceFrom(s, lo) == PySlice(s, lo, Len(s))

\* s[::-1]
PyReversed(s) == [j \in 1..Len(s) |-> s[Len(s) + 1 - j]]

\* list(range(start, stop, step)) for step /= 0 (range raises ValueError on
\* step = 0): start, start + step, ... while before stop.
RECURSIVE PyRange(_, _, _)
PyRange(start, stop, step) ==
    IF (step > 0 /\ start < stop) \/ (step < 0 /\ start > stop)
    THEN <<start>> \o PyRange(start + step, stop, step)
    ELSE <<>>

(***************************************************************************)
(* chunk_text and chunk_text_with_headers.                                 *)
(***************************************************************************)
\* Mutant: the loop steps by n, forgetting the overlap.
ChunkTextNoOverlap(t, size, ov) ==
    LET offsets == PyRange(0, Len(t), size)
    IN  [j \in 1..Len(offsets) |-> PySlice(t, offsets[j], offsets[j] + size)]

\* Mutant: the window is one character short, text[i:i + n - 1].
ChunkTextShortWindow(t, size, ov) ==
    LET offsets == PyRange(0, Len(t), size - ov)
    IN  [j \in 1..Len(offsets) |->
            PySlice(t, offsets[j], offsets[j] + size - 1)]

\* Mutant: the window is one character long, text[i:i + n + 1].
ChunkTextLongWindow(t, size, ov) ==
    LET offsets == PyRange(0, Len(t), size - ov)
    IN  [j \in 1..Len(offsets) |->
            PySlice(t, offsets[j], offsets[j] + size + 1)]

\* for i in range(0, len(text), n - overlap): chunks.append(text[i:i + n])
ChunkText(t, size, ov) ==
    LET offsets == PyRange(0, Len(t), size - ov)
    IN  [j \in 1..Len(offsets) |-> PySlice(t, offsets[j], offsets[j] + size)]

\* The header the completion provider returns for a chunk: opaque text that
\* is a function of the chunk.
GenerateChunkHeader(chunk) == <<"#">> \o chunk

\* The same loop, each window stored with the header generated from it.
ChunkTextWithHeaders(t, size, ov) ==
    LET offsets == PyRange(0, Len(t), size - ov)
    IN  [j \in 1..Len(offsets) |->
            LET chunk == PySlice(t, offsets[j], offsets[j] + size)
            IN  [header |-> GenerateChunkHeader(chunk), text |-> chunk]]

Letters == <<"a", "b", "c", "d", "e", "f", "g", "h", "i", "j", "k", "l">>

RECURSIVE SeqsUpTo(_, _)
SeqsUpTo(S, len) ==
    IF len = 0 THEN {<<>>}
    ELSE LET shorter == SeqsUpTo(S, len - 1)
         IN  shorter \cup {Append(s, x) : s \in shorter, x \in S}

Texts ==
    {SubSeq(Letters, 1, len) : len \in 0..MaxTextLen}
        \cup SeqsUpTo({"a", "b"}, MaxRepLen)

NoChunkArgs == text = <<>> /\ n = 1 /\ overlap = 0 /\ chunks = <<>>
NoSearchArgs ==
    /\ query_embedding = <<1, 0>> /\ text_chunks = <<>> /\ embeddings = <<>>
    /\ k = 0 /\ top_indices = <<>> /\ result = <<>>
NoBreakArgs ==
    /\ similarities = <<>> /\ method = "percentile" /\ threshold = 0
    /\ breakpoints = <<>> /\ percentile_of_empty = "nan"
NoSplitArgs == sentences = <<>> /\ chunk_slices = <<>> /\ split_chunks = <<>>
NoCosArgs ==
    /\ vector1 = <<1, 0>> /\ vector2 = <<1, 0>>
    /\ cosine = [kind |-> "number", value |-> [sign |-> 0, mant |-> <<>>, exp |-> 0]]
NoAdjArgs == sentence_embeddings = <<>>
NoPipeArgs == provider_calls = <<>> /\ text_embedding = <<1, 0>>

InitChunk ==
    /\ pc = "ready" /\ fn = "none" /\ err = "none"
    /\ text \in Texts
    /\ n \in -1..MaxN
    /\ overlap \in -1..MaxN
    /\ chunks = <<>>
    /\ NoSearchArgs /\ NoBreakArgs /\ NoSplitArgs /\ NoCosArgs /\ NoAdjArgs /\ NoPipeArgs

\* chunk_text(text, n, overlap) of the simple-RAG and chunk-size notebooks.
CallChunkText ==
    /\ pc = "ready"
    /\ fn' = "chunk_text"
    /\ IF n - overlap = 0
       THEN pc' = "error" /\ err' = "ValueError" /\ UNCHANGED chunks
       ELSE pc' = "done" /\ err' = "none"
            /\ chunks' = ChunkText(text, n, overlap)
    /\ UNCHANGED <<text, n, overlap, searchVars, breakVars, splitVars, cosVars, adjVars, pipeVars>>

\* chunk_text_with_headers(text, n, overlap) of the contextual-headers notebook.
CallChunkTextWithHeaders ==
    /\ pc = "ready"
    /\ fn' = "chunk_text_with_headers"
    /\ IF n - overlap = 0
       THEN pc' = "error" /\ err' = "ValueError" /\ UNCHANGED chunks
       ELSE pc' = "done" /\ err' = "none"
            /\ chunks' = ChunkTextWithHeaders(text, n, overlap)
    /\ UNCHANGED <<text, n, overlap, searchVars, breakVars, splitVars, cosVars, adjVars, pipeVars>>

NextChunk == CallChunkText \/ CallChunkTextWithHeaders

SpecChunk == InitChunk /\ [][NextChunk]_vars

(***************************************************************************)
(* Cosine similarity and the four retrieval functions.                     *)
(***************************************************************************)
Dot(a, b) == a[1] * b[1] + a[2] * b[2]

\* np.linalg.norm, for a vector whose norm is an integer.
Norm(v) == CHOOSE r \in 0..Dot(v, v) : r * r = Dot(v, v)

\* np.dot(vec1, vec2) / (np.linalg.norm(vec1) * np.linalg.norm(vec2)),
\* as 50 times its value.
CosineSimilarity(vec1, vec2) ==
    (50 * Dot(vec1, vec2)) \div (Norm(vec1) * Norm(vec2))

\* Stable ascending sort by score, the forward sort of list.sort: each item
\* goes behind the items sorted so far whose score is not greater.
RECURSIVE StableSortAsc(_)
StableSortAsc(items) ==
    IF items = <<>> THEN <<>>
    ELSE LET front == StableSortAsc(SubSeq(items, 1, Len(items) - 1))
             x == items[Len(items)]
             keep == Cardinality({p \in 1..Len(front) :
                                      front[p].score <= x.score})
         IN  SubSeq(front, 1, keep) \o <<x>>
                 \o SubSeq(front, keep + 1, Len(front))

\* Mutant: reverse=True is forgotten, the list is sorted ascending.
PySortNoReverse(items) == StableSortAsc(items)

\* items.sort(key=lambda x: x[1], reverse=True): CPython reverses the list,
\* sorts it stably ascending and reverses it again.
PySortReverse(items) == PyReversed(StableSortAsc(PyReversed(items)))

\* The outcomes of np.argsort(scores) with the default kind "quicksort",
\* which is not stable: any order of the 0-based indices along which the
\* scores ascend.
ArgsortOutcomes(scores) ==
    LET len == Len(scores)
    IN  {p \in [1..len -> 0..(len - 1)] :
            /\ \A i, j \in 1..len : i # j => p[i] # p[j]
            /\ \A i \in 1..(len - 1) : scores[p[i] + 1] <= scores[p[i + 1] + 1]}

\* similarity_scores of semantic_search (simple RAG): (i, score) per chunk.
TextScores(q, embs) ==
    [i \in 1..Len(embs) |->
        [index |-> i - 1, score |-> CosineSimilarity(q, embs[i].embedding)]]

\* A mutant of AvgScores: the similarity to the text embedding alone.
AvgScoresTextOnly(q, embs) ==
    [i \in 1..Len(embs) |->
        [index |-> i - 1, score |-> CosineSimilarity(q, embs[i].embedding)]]

\* similarities of semantic_search (contextual headers): per chunk the mean
\* of the similarity to its text and to its header embedding.
AvgScores(q, embs) ==
    [i \in 1..Len(embs) |->
        [index |-> i - 1,
         score |-> (CosineSimilarity(q, embs[i].embedding)
                    + CosineSimilarity(q, embs[i].header_embedding)) \div 2]]

\* A mutant of SortedTopK: the best chunk, once for each place.
SortedTopKRepeated(items, kk) ==
    LET sorted == PySortReverse(items)
        top == PySlice(sorted, 0, kk)
    IN  [j \in 1..Len(top) |-> top[1].index]

\* A mutant of SortedTopK: the places in the sorted list are taken for the
\* chunk indices.
SortedTopKPlaces(items, kk) ==
    LET sorted == PySortReverse(items)
        top == PySlice(sorted, 0, kk)
    IN  [j \in 1..Len(top) |-> j - 1]

\* top_indices of semantic_search (simple RAG): sort, then [:k].
SortedTopK(items, kk) ==
    LET sorted == PySortReverse(items)
        top == PySlice(sorted, 0, kk)
    IN  [j \in 1..Len(top) |-> top[j].index]

\* A mutant of ArgsortTopK: the [::-1] is left out.
ArgsortTopKAscending(order, kk) == PySliceFrom(order, 0 - kk)

\* np.argsort(similarities)[-k:][::-1] for the outcome order of argsort.
ArgsortTopK(order, kk) == PyReversed(PySliceFrom(order, 0 - kk))

Vecs == {<<1, 0>>, <<3, 4>>, <<-4, 3>>}
HeaderVecs == {<<1, 0>>, <<0, 1>>}
QueryVecs == {<<1, 0>>, <<3, 4>>}

ChunkEmbeddings ==
    {[embedding |-> e, header_embedding |-> h] : e \in Vecs, h \in HeaderVecs}

InitSearch ==
    /\ pc = "ready" /\ fn = "none" /\ err = "none"
    /\ query_embedding \in QueryVecs
    /\ embeddings \in SeqsUpTo(ChunkEmbeddings, MaxChunks)
    /\ text_chunks = [i \in 1..Len(embeddings) |-> <<Letters[i]>>]
    /\ k \in -1..MaxK
    /\ top_indices = <<>> /\ result = <<>>
    /\ NoChunkArgs /\ NoBreakArgs /\ NoSplitArgs /\ NoCosArgs /\ NoAdjArgs /\ NoPipeArgs

Returned(name) ==
    /\ pc' = "done" /\ fn' = name /\ err' = "none"
    /\ UNCHANGED <<query_embedding, text_chunks, embeddings, k>>
    /\ UNCHANGED <<chunkVars, breakVars, splitVars, cosVars, adjVars, pipeVars>>

\* semantic_search(query, text_chunks, embeddings, k) of the simple-RAG
\* notebook.
SemanticSearchSimple ==
    /\ pc = "ready"
    /\ top_indices' = SortedTopK(TextScores(query_embedding, embeddings), k)
    /\ result' = [j \in 1..Len(top_indices') |->
                     text_chunks[top_indices'[j] + 1]]
    /\ Returned("semantic_search_simple")

\* retrieve_relevant_chunks(query, text_chunks, chunk_embeddings, k) of the
\* chunk-size notebook.
RetrieveRelevantChunks ==
    /\ pc = "ready"
    /\ LET scores == TextScores(query_embedding, embeddings)
       IN  \E order \in ArgsortOutcomes([i \in 1..Len(scores) |->
                                            scores[i].score]) :
               top_indices' = ArgsortTopK(order, k)
    /\ result' = [j \in 1..Len(top_indices') |->
                     text_chunks[top_indices'[j] + 1]]
    /\ Returned("retrieve_relevant_chunks")

\* semantic_search(query, text_chunks, chunk_embeddings, k) of the
\* semantic-chunking notebook: the same body as retrieve_relevant_chunks.
SemanticSearchSemantic ==
    /\ pc = "ready"
    /\ LET scores == TextScores(query_embedding, embeddings)
       IN  \E order \in ArgsortOutcomes([i \in 1..Len(scores) |->
                                            scores[i].score]) :
               top_indices' = ArgsortTopK(order, k)
    /\ result' = [j \in 1..Len(top_indices') |->
                     text_chunks[top_indices'[j] + 1]]
    /\ Returned("semantic_search_semantic")

\* semantic_search(query, chunks, k) of the contextual-headers notebook: it
\* returns the chunk dictionaries.
SemanticSearchHeaders ==
    /\ pc = "ready"
    /\ top_indices' = SortedTopK(AvgScores(query_embedding, embeddings), k)
    /\ result' = [j \in 1..Len(top_indices') |->
                     [text |-> text_chunks[top_indices'[j] + 1],
                      embedding |-> embeddings[top_indices'[j] + 1].embedding,
                      header_embedding |->
                          embeddings[top_indices'[j] + 1].header_embedding]]
    /\ Returned("semantic_search_headers")

NextSearch ==
    \/ SemanticSearchSimple
    \/ RetrieveRelevantChunks
    \/ SemanticSearchSemantic
    \/ SemanticSearchHeaders

SpecSearch == InitSearch /\ [][NextSearch]_vars

(***************************************************************************)
(* Claims about the retrieval functions.                                   *)
(***************************************************************************)
SearchReturned == pc = "done"

\* The score the called function ranked chunk i (0-based) by.
RankScore(i) ==
    IF fn = "semantic_search_headers"
    THEN AvgScores(query_embedding, embeddings)[i + 1].score
    ELSE TextScores(query_embedding, embeddings)[i + 1].score

ChunkIndices == 0..(Len(text_chunks) - 1)

ReturnedIndices == {top_indices[j] : j \in 1..Len(top_indices)}

\* The 1-based place of chunk i in the result.
Place(i) == CHOOSE j \in 1..Len(top_indices) : top_indices[j] = i

\* C1: for every retrieval function and every k >= 0 the number of chunks
\* returned is min(k, len(chunks)); k = 0 returns no chunk.
C1_ResultCount ==
    (SearchReturned /\ k >= 0) => Len(result) = Min(k, Len(text_chunks))

\* C2: among chunks with exactly equal scores the one with the lower
\* original index is ranked first, inside the top k and at the cut.
C2_StableTies ==
    (SearchReturned /\ k >= 1) =>
        \A i, j \in ChunkIndices :
            (i < j /\ RankScore(i) = RankScore(j) /\ j \in ReturnedIndices) =>
                (i \in ReturnedIndices /\ Place(i) < Place(j))

\* C3: the scores of the returned chunks are non-increasing along the
\* result, and no chunk left out scores higher than a returned one.
C3_TopK ==
    SearchReturned =>
        /\ \A j \in 1..(Len(top_indices) - 1) :
               RankScore(top_indices[j]) >= RankScore(top_indices[j + 1])
        /\ \A i \in ChunkIndices \ ReturnedIndices :
               \A j \in ReturnedIndices : RankScore(i) <= RankScore(j)

C3_Witness ==
    /\ SearchReturned /\ fn = "retrieve_relevant_chunks"
    /\ Len(text_chunks) = 3 /\ k = 2 /\ Len(top_indices) = 2
    /\ RankScore(top_indices[1]) > RankScore(top_indices[2])
    /\ \E i \in ChunkIndices \ ReturnedIndices :
           RankScore(i) < RankScore(top_indices[2])
    /\ top_indices[1] > top_indices[2]

\* C4: a search over an empty chunk collection fails; no retrieval function
\* returns a result list when chunks is empty.
C4_EmptyCorpusFails ==
    (pc # "ready" /\ text_chunks = <<>>) => pc = "error"

(***************************************************************************)
(* compute_breakpoints.  A similarity is held as an integer number of      *)
(* hundredths; every comparison with a threshold value is made exactly, on *)
(* both sides multiplied by the denominator.                               *)
(***************************************************************************)
\* np.sort: the values in ascending order.
RECURSIVE SortAsc(_)
SortAsc(a) ==
    IF a = <<>> THEN <<>>
    ELSE LET front == SortAsc(SubSeq(a, 1, Len(a) - 1))
             x == a[Len(a)]
             keep == Cardinality({p \in 1..Len(front) : front[p] <= x})
         IN  SubSeq(front, 1, keep) \o <<x>>
                 \o SubSeq(front, keep + 1, Len(front))

\* Mutant: the order statistic below the virtual index, no interpolation.
PercentileLower(a, q) ==
    LET sorted == SortAsc(a)
        lower == (q * (Len(a) - 1)) \div 100
    IN  100 * sorted[lower + 1]

\* Mutant: the percentile counted from the largest value, 100 - q.
PercentileFromTop(a, q) ==
    LET sorted == SortAsc(a)
        lower == ((100 - q) * (Len(a) - 1)) \div 100
        part == ((100 - q) * (Len(a) - 1)) % 100
    IN  IF part = 0
        THEN 100 * sorted[lower + 1]
        ELSE 100 * sorted[lower + 1]
                 + part * (sorted[lower + 2] - sorted[lower + 1])

\* 100 * np.percentile(a, q) for non-empty a and 0 <= q <= 100, default
\* method "linear": the virtual index q/100 * (len(a) - 1) falls between
\* two order statistics, which are interpolated.
PercentileTimes100(a, q) ==
    LET sorted == SortAsc(a)
        lower == (q * (Len(a) - 1)) \div 100
        part == (q * (Len(a) - 1)) % 100
    IN  IF part = 0
        THEN 100 * sorted[lower + 1]
        ELSE 100 * sorted[lower + 1]
                 + part * (sorted[lower + 2] - sorted[lower + 1])

RECURSIVE Sum(_)
Sum(a) == IF a = <<>> THEN 0 ELSE Head(a) + Sum(Tail(a))

\* Mutant: the sample standard deviation, np.std(a, ddof=1), which divides
\* by N - 1 (nan for a single similarity, and no comparison with nan holds).
BelowMeanMinusSampleStd(sim, a, t) ==
    LET len == Len(a)
        total == Sum(a)
        squares == Sum([i \in 1..len |-> a[i] * a[i]])
        spread == len * squares - total * total
        gap == total - len * sim
    IN  IF len = 1 THEN FALSE
        ELSE IF t >= 0
        THEN gap > 0 /\ t * t * spread * len < gap * gap * (len - 1)
        ELSE gap > 0 \/ t * t * spread * len > gap * gap * (len - 1)

\* sim < np.mean(a) - t * np.std(a).  With N = len(a), S the sum and Q the
\* sum of squares, np.std(a) = sqrt(N*Q - S*S) / N, so the comparison is
\* t * sqrt(N*Q - S*S) < S - N*sim.
BelowMeanMinusStd(sim, a, t) ==
    LET len == Len(a)
        total == Sum(a)
        squares == Sum([i \in 1..len |-> a[i] * a[i]])
        spread == len * squares - total * total
        gap == total - len * sim
    IN  IF t >= 0
        THEN gap > 0 /\ t * t * spread < gap * gap
        ELSE gap > 0 \/ t * t * spread > gap * gap

\* Mutant: the fence multiplier is 3 // 2 = 1 instead of 1.5.
BelowIqrFenceWhole(sim, a) ==
    LET q1 == PercentileTimes100(a, 25)
        q3 == PercentileTimes100(a, 75)
    IN  100 * sim < q1 - (q3 - q1)

\* sim < q1 - 1.5 * (q3 - q1), with q1, q3 = np.percentile(a, [25, 75]).
BelowIqrFence(sim, a) ==
    LET q1 == PercentileTimes100(a, 25)
        q3 == PercentileTimes100(a, 75)
    IN  2 * 100 * sim < 2 * q1 - 3 * (q3 - q1)

\* Mutant: sim <= threshold_value with the percentile method.
BelowThresholdInclusive(sim, a, m, t) ==
    CASE m = "percentile" -> 100 * sim <= PercentileTimes100(a, t)
      [] m = "standard_deviation" -> BelowMeanMinusStd(sim, a, t)
      [] m = "interquartile" -> BelowIqrFence(sim, a)

\* sim < threshold_value for the threshold value the method computes.
BelowThreshold(sim, a, m, t) ==
    CASE m = "percentile" -> 100 * sim < PercentileTimes100(a, t)
      [] m = "standard_deviation" -> BelowMeanMinusStd(sim, a, t)
      [] m = "interquartile" -> BelowIqrFence(sim, a)

\* Mutant: enumerate counts from 1.
RECURSIVE IndicesBelowFromOne(_, _, _, _)
IndicesBelowFromOne(a, m, t, upto) ==
    IF upto = 0 THEN <<>>
    ELSE LET front == IndicesBelowFromOne(a, m, t, upto - 1)
         IN  IF BelowThreshold(a[upto], a, m, t)
             THEN Append(front, upto)
             ELSE front

\* [i for i, sim in enumerate(similarities) if sim < threshold_value], over
\* the first upto similarities.
RECURSIVE IndicesBelow(_, _, _, _)
IndicesBelow(a, m, t, upto) ==
    IF upto = 0 THEN <<>>
    ELSE LET front == IndicesBelow(a, m, t, upto - 1)
         IN  IF BelowThreshold(a[upto], a, m, t)
             THEN Append(front, upto - 1)
             ELSE front

Methods == {"percentile", "standard_deviation", "interquartile"}

\* Mutant: the else branch is missing, so an unknown method leaves
\* threshold_value unbound and the return statement fails.
ComputeBreakpointsRaisesUnbound(a, m, t, ofEmpty) ==
    IF m \notin {"percentile", "standard_deviation", "interquartile"}
    THEN "UnboundLocalError"
    ELSE IF m = "percentile" /\ (t < 0 \/ t > 100) THEN "ValueError"
    ELSE IF m # "standard_deviation" /\ a = <<>> /\ ofEmpty = "IndexError"
         THEN "IndexError"
    ELSE "none"

\* The exception compute_breakpoints raises, "none" when it returns: its own
\* ValueError for an unknown method, np.percentile's ValueError for a
\* percentile outside 0 .. 100, and for an empty array whatever the
\* installed np.percentile does (nan, or an IndexError).
ComputeBreakpointsRaises(a, m, t, ofEmpty) ==
    IF m \notin Methods THEN "ValueError"
    ELSE IF m = "percentile" /\ (t < 0 \/ t > 100) THEN "ValueError"
    ELSE IF m # "standard_deviation" /\ a = <<>> /\ ofEmpty = "IndexError"
         THEN "IndexError"
    ELSE "none"

\* What compute_breakpoints(similarities, method, threshold) returns.
ComputeBreakpoints(a, m, t) == IndicesBelow(a, m, t, Len(a))

(***************************************************************************)
(* Sentence splitting and split_into_chunks.                               *)
(***************************************************************************)
DotSpace == <<".", " ">>

\* The 1-based places where sep occurs in t.
Occurrences(t, sep) ==
    {i \in 1..(Len(t) - Len(sep) + 1) : SubSeq(t, i, i + Len(sep) - 1) = sep}

\* t.split(sep): cut at the leftmost occurrence of sep, then split the rest.
RECURSIVE PySplit(_, _)
PySplit(t, sep) ==
    IF Occurrences(t, sep) = {} THEN <<t>>
    ELSE LET at == CHOOSE i \in Occurrences(t, sep) :
                       \A j \in Occurrences(t, sep) : i <= j
         IN  <<SubSeq(t, 1, at - 1)>>
                 \o PySplit(SubSeq(t, at + Len(sep), Len(t)), sep)

\* sep.join(items)
RECURSIVE PyJoin(_, _)
PyJoin(sep, items) ==
    IF items = <<>> THEN <<>>
    ELSE IF Len(items) = 1 THEN items[1]
    ELSE items[1] \o sep \o PyJoin(sep, Tail(items))

\* Mutant: the last chunk is appended only when sentences are left.
RECURSIVE SplitLoopNoEmptyTail(_, _, _)
SplitLoopNoEmptyTail(sents, bps, start) ==
    IF bps = <<>>
    THEN IF PySliceFrom(sents, start) = <<>> THEN <<>>
         ELSE <<[sentences |-> PySliceFrom(sents, start),
                 text |-> PyJoin(DotSpace, PySliceFrom(sents, start))]>>
    ELSE LET bp == Head(bps)
         IN  <<[sentences |-> PySlice(sents, start, bp + 1),
                text |-> PyJoin(DotSpace, PySlice(sents, start, bp + 1))
                             \o <<".">>]>>
                 \o SplitLoopNoEmptyTail(sents, Tail(bps), bp + 1)

\* Mutant: start = bp, the next chunk starts at the breakpoint sentence.
RECURSIVE SplitLoopStartAtBreakpoint(_, _, _)
SplitLoopStartAtBreakpoint(sents, bps, start) ==
    IF bps = <<>>
    THEN <<[sentences |-> PySliceFrom(sents, start),
            text |-> PyJoin(DotSpace, PySliceFrom(sents, start))]>>
    ELSE LET bp == Head(bps)
         IN  <<[sentences |-> PySlice(sents, start, bp + 1),
                text |-> PyJoin(DotSpace, PySlice(sents, start, bp + 1))
                             \o <<".">>]>>
                 \o SplitLoopStartAtBreakpoint(sents, Tail(bps), bp)

\* Mutant: the "." after a chunk that ends at a breakpoint is forgotten.
RECURSIVE SplitLoopNoPeriod(_, _, _)
SplitLoopNoPeriod(sents, bps, start) ==
    IF bps = <<>>
    THEN <<[sentences |-> PySliceFrom(sents, start),
            text |-> PyJoin(DotSpace, PySliceFrom(sents, start))]>>
    ELSE LET bp == Head(bps)
         IN  <<[sentences |-> PySlice(sents, start, bp + 1),
                text |-> PyJoin(DotSpace, PySlice(sents, start, bp + 1))]>>
                 \o SplitLoopNoPeriod(sents, Tail(bps), bp + 1)

\* The loop of split_into_chunks from start on, and its last append: per
\* chunk the slice of sentences taken and the text appended,
\*   chunks.append(". ".join(sentences[start:bp + 1]) + "."); start = bp + 1
\*   chunks.append(". ".join(sentences[start:]))
RECURSIVE SplitLoop(_, _, _)
SplitLoop(sents, bps, start) ==
    IF bps = <<>>
    THEN <<[sentences |-> PySliceFrom(sents, start),
            text |-> PyJoin(DotSpace, PySliceFrom(sents, start))]>>
    ELSE LET bp == Head(bps)
         IN  <<[sentences |-> PySlice(sents, start, bp + 1),
                text |-> PyJoin(DotSpace, PySlice(sents, start, bp + 1))
                             \o <<".">>]>>
                 \o SplitLoop(sents, Tail(bps), bp + 1)

\* split_into_chunks(sentences, breakpoints)
SplitIntoChunks(sents, bps) ==
    LET made == SplitLoop(sents, bps, 0)
    IN  [j \in 1..Len(made) |-> made[j].text]

\* The slices of sentences split_into_chunks joined, chunk by chunk.
SplitSlices(sents, bps) ==
    LET made == SplitLoop(sents, bps, 0)
    IN  [j \in 1..Len(made) |-> made[j].sentences]

SimValues == {20, 90, 92, 95}
MethodNames == Methods \cup {"iqr"}
Thresholds == {-1, 0, 1, 2, 50, 90, 100, 101}

InitBreak ==
    /\ pc = "ready" /\ fn = "none" /\ err = "none"
    /\ similarities \in SeqsUpTo(SimValues, MaxSims)
    /\ method \in MethodNames
    /\ threshold \in Thresholds
    /\ percentile_of_empty \in {"nan", "IndexError"}
    /\ breakpoints = <<>>
    /\ sentences = [i \in 1..(Len(similarities) + 1) |-> <<Letters[i]>>]
    /\ chunk_slices = <<>> /\ split_chunks = <<>>
    /\ NoChunkArgs /\ NoSearchArgs /\ NoCosArgs /\ NoAdjArgs /\ NoPipeArgs

\* compute_breakpoints(similarities, method, threshold).
CallComputeBreakpoints ==
    /\ pc = "ready"
    /\ fn' = "compute_breakpoints"
    /\ err' = ComputeBreakpointsRaises(similarities, method, threshold,
                                       percentile_of_empty)
    /\ IF err' # "none"
       THEN pc' = "error" /\ UNCHANGED breakpoints
       ELSE pc' = "done"
            /\ breakpoints' = ComputeBreakpoints(similarities, method, threshold)
    /\ UNCHANGED <<similarities, method, threshold, percentile_of_empty>>
    /\ UNCHANGED <<chunkVars, searchVars, splitVars, cosVars, adjVars, pipeVars>>

\* text_chunks = split_into_chunks(sentences, breakpoints) with the
\* breakpoints compute_breakpoints returned.
SplitAtBreakpoints ==
    /\ pc = "done" /\ fn = "compute_breakpoints"
    /\ fn' = "split_into_chunks"
    /\ split_chunks' = SplitIntoChunks(sentences, breakpoints)
    /\ chunk_slices' = SplitSlices(sentences, breakpoints)
    /\ UNCHANGED <<pc, err, sentences, breakVars, chunkVars, searchVars, cosVars, adjVars, pipeVars>>

NextBreak == CallComputeBreakpoints \/ SplitAtBreakpoints

SpecBreak == InitBreak /\ [][NextBreak]_vars

ExampleText == <<"A", ".", " ", "B", ".", " ", "C", ".", " ", "D", ".">>

SplitTexts == SeqsUpTo({"A", ".", " "}, MaxSplitLen) \cup {ExampleText}

InitSplit ==
    /\ pc = "ready" /\ fn = "none" /\ err = "none"
    /\ text \in SplitTexts
    /\ n = 1 /\ overlap = 0 /\ chunks = <<>>
    /\ similarities = <<>> /\ method = "percentile" /\ threshold = 0
    /\ percentile_of_empty = "nan"
    /\ breakpoints \in SeqsUpTo(-1..MaxBreakpoint, MaxBreakpoints)
    /\ NoSplitArgs /\ NoSearchArgs /\ NoCosArgs /\ NoAdjArgs /\ NoPipeArgs

\* sentences = extracted_text.split(". ")
SplitSentences ==
    /\ pc = "ready"
    /\ pc' = "sentences" /\ fn' = "split"
    /\ sentences' = PySplit(text, DotSpace)
    /\ UNCHANGED <<err, chunk_slices, split_chunks>>
    /\ UNCHANGED <<chunkVars, searchVars, breakVars, cosVars, adjVars, pipeVars>>

\* split_into_chunks(sentences, breakpoints), on the sentences of the text
\* or, before any text was split, on the empty sentence list.
CallSplitIntoChunks ==
    /\ pc \in {"ready", "sentences"}
    /\ pc' = "done" /\ fn' = "split_into_chunks"
    /\ split_chunks' = SplitIntoChunks(sentences, breakpoints)
    /\ chunk_slices' = SplitSlices(sentences, breakpoints)
    /\ UNCHANGED <<err, sentences, chunkVars, searchVars, breakVars, cosVars, adjVars, pipeVars>>

NextSplit == SplitSentences \/ CallSplitIntoChunks

SpecSplit == InitSplit /\ [][NextSplit]_vars

(***************************************************************************)
(* cosine_similarity on its own, zero vectors included, in the float64     *)
(* arithmetic of numpy.  A natural number too wide for one machine integer *)
(* is a sequence of limbs, least significant first, without leading zero   *)
(* limbs: <<>> is 0.  A float64 is a record [sign, mant, exp] of value     *)
(* sign * mant * 2^exp, its mantissa a natural of exactly MantissaBits     *)
(* bits (zero: sign 0, mant <<>>).                                         *)
(***************************************************************************)
LimbBits == 15
MantissaBits == 53
Base == 2 ^ LimbBits

RECURSIVE BigOf(_)
BigOf(x) == IF x = 0 THEN <<>> ELSE <<x % Base>> \o BigOf(x \div Base)

RECURSIVE BigTrim(_)
BigTrim(a) ==
    IF a = <<>> THEN <<>>
    ELSE IF a[Len(a)] = 0 THEN BigTrim(SubSeq(a, 1, Len(a) - 1))
    ELSE a

Limb(a, i) == IF i <= Len(a) THEN a[i] ELSE 0

RECURSIVE BigAddFrom(_, _, _, _)
BigAddFrom(a, b, i, carry) ==
    IF i > Max(Len(a), Len(b))
    THEN IF carry = 0 THEN <<>> ELSE <<carry>>
    ELSE LET t == Limb(a, i) + Limb(b, i) + carry
         IN  <<t % Base>> \o BigAddFrom(a, b, i + 1, t \div Base)

BigAdd(a, b) == BigAddFrom(a, b, 1, 0)

\* a - b, for a >= b.
RECURSIVE BigSubFrom(_, _, _, _)
BigSubFrom(a, b, i, borrow) ==
    IF i > Len(a) THEN <<>>
    ELSE LET t == Limb(a, i) - Limb(b, i) - borrow
         IN  IF t < 0
             THEN <<t + Base>> \o BigSubFrom(a, b, i + 1, 1)
             ELSE <<t>> \o BigSubFrom(a, b, i + 1, 0)

BigSub(a, b) == BigTrim(BigSubFrom(a, b, 1, 0))

RECURSIVE BigCmpFrom(_, _, _)
BigCmpFrom(a, b, i) ==
    IF i = 0 THEN 0
    ELSE IF a[i] < b[i] THEN -1
    ELSE IF a[i] > b[i] THEN 1
    ELSE BigCmpFrom(a, b, i - 1)

\* -1, 0 or 1 as a < b, a = b or a > b.
BigCmp(a, b) ==
    IF Len(a) < Len(b) THEN -1
    ELSE IF Len(a) > Len(b) THEN 1
    ELSE BigCmpFrom(a, b, Len(a))

\* a * m for one limb m.
RECURSIVE BigMulLimbFrom(_, _, _, _)
BigMulLimbFrom(a, m, i, carry) ==
    IF i > Len(a)
    THEN IF carry = 0 THEN <<>> ELSE <<carry>>
    ELSE LET t == a[i] * m + carry
         IN  <<t % Base>> \o BigMulLimbFrom(a, m, i + 1, t \div Base)

BigMulLimb(a, m) == IF m = 0 THEN <<>> ELSE BigMulLimbFrom(a, m, 1, 0)

\* a * Base^j.
BigShiftLimbs(a, j) == IF a = <<>> THEN <<>> ELSE [i \in 1..j |-> 0] \o a

RECURSIVE BigMulFrom(_, _, _)
BigMulFrom(a, b, j) ==
    IF j > Len(b) THEN <<>>
    ELSE BigAdd(BigShiftLimbs(BigMulLimb(a, b[j]), j - 1),
                BigMulFrom(a, b, j + 1))

BigMul(a, b) == BigMulFrom(a, b, 1)

\* a * 2^bits.
BigShl(a, bits) ==
    BigShiftLimbs(BigMulLimb(a, 2 ^ (bits % LimbBits)), bits \div LimbBits)

\* What is left of the limbs of a from limb i up, divided by the limb m.
RECURSIVE RemainderAbove(_, _, _)
RemainderAbove(a, m, i) ==
    IF i > Len(a) THEN 0
    ELSE (RemainderAbove(a, m, i + 1) * Base + a[i]) % m

\* a \div m for one limb m >= 1.
BigDivLimb(a, m) ==
    BigTrim([i \in 1..Len(a) |->
                (RemainderAbove(a, m, i + 1) * Base + a[i]) \div m])

\* a \div 2^bits.
BigShr(a, bits) ==
    LET whole == bits \div LimbBits
    IN  IF whole >= Len(a) THEN <<>>
        ELSE BigDivLimb(SubSeq(a, whole + 1, Len(a)), 2 ^ (bits % LimbBits))

RECURSIVE SmallBitLen(_)
SmallBitLen(x) == IF x = 0 THEN 0 ELSE 1 + SmallBitLen(x \div 2)

\* The number of binary digits of a.
BitLen(a) ==
    IF a = <<>> THEN 0
    ELSE (Len(a) - 1) * LimbBits + SmallBitLen(a[Len(a)])

BigOdd(a) == a # <<>> /\ a[1] % 2 = 1

\* Long division in binary: `count` more binary digits of the quotient
\* at.quotient, at.rest being what is left of the dividend, at.rest < d.
RECURSIVE BigDivDigits(_, _, _)
BigDivDigits(at, d, count) ==
    IF count = 0 THEN at
    ELSE LET twice == BigMulLimb(at.rest, 2)
         IN  IF BigCmp(twice, d) >= 0
             THEN BigDivDigits(
                      [quotient |-> BigAdd(BigMulLimb(at.quotient, 2), <<1>>),
                       rest |-> BigSub(twice, d)], d, count - 1)
             ELSE BigDivDigits(
                      [quotient |-> BigMulLimb(at.quotient, 2),
                       rest |-> twice], d, count - 1)

\* (a * 2^count) \div d and what is left, for a < 2 * d.
BigDivScaled(a, d, count) ==
    IF BigCmp(a, d) >= 0
    THEN BigDivDigits([quotient |-> <<1>>, rest |-> BigSub(a, d)], d, count)
    ELSE BigDivDigits([quotient |-> <<>>, rest |-> a], d, count)

\* The largest r with r * r <= a, bit by bit.
RECURSIVE BigSqrtBits(_, _, _)
BigSqrtBits(a, r, bit) ==
    IF bit < 0 THEN r
    ELSE LET cand == BigAdd(r, BigShl(<<1>>, bit))
         IN  IF BigCmp(BigMul(cand, cand), a) <= 0
             THEN BigSqrtBits(a, cand, bit - 1)
             ELSE BigSqrtBits(a, r, bit - 1)

BigSqrt(a) == BigSqrtBits(a, <<>>, BitLen(a) \div 2)

FloatZero == [sign |-> 0, mant |-> <<>>, exp |-> 0]

\* The float64 nearest to sign * (a + f) * 2^e, ties to even, where f = 0
\* when sticky is false and 0 < f < 1 when it is true; a sticky a has more
\* than MantissaBits + 1 bits.
RoundToFloat(sign, a, e, sticky) ==
    LET len == BitLen(a)
        drop == len - MantissaBits
        kept == BigShr(a, drop)
        rest == BigSub(a, BigShl(kept, drop))
        half == BigShl(<<1>>, drop - 1)
        up == \/ BigCmp(rest, half) > 0
              \/ BigCmp(rest, half) = 0 /\ (sticky \/ BigOdd(kept))
        raised == BigAdd(kept, <<1>>)
    IN  IF a = <<>> THEN FloatZero
        ELSE IF drop <= 0
        THEN [sign |-> sign, mant |-> BigShl(a, -drop), exp |-> e + drop]
        ELSE IF ~up
        THEN [sign |-> sign, mant |-> kept, exp |-> e + drop]
        ELSE IF BitLen(raised) > MantissaBits
        THEN [sign |-> sign, mant |-> BigShr(raised, 1), exp |-> e + drop + 1]
        ELSE [sign |-> sign, mant |-> raised, exp |-> e + drop]

Sign(x) == IF x > 0 THEN 1 ELSE IF x < 0 THEN -1 ELSE 0
Abs(x) == IF x < 0 THEN -x ELSE x

\* The float64 of an integer.
FloatOf(x) == RoundToFloat(Sign(x), BigOf(Abs(x)), 0, FALSE)

\* x * y, rounded.
FloatMul(x, y) ==
    RoundToFloat(x.sign * y.sign, BigMul(x.mant, y.mant), x.exp + y.exp, FALSE)

\* x / y, rounded, for y # 0: the quotient of the mantissas is taken with
\* MantissaBits + 4 more binary digits.
FloatDiv(x, y) ==
    LET more == MantissaBits + 4
        div == BigDivScaled(x.mant, y.mant, more)
    IN  RoundToFloat(x.sign * y.sign, div.quotient, x.exp - more - y.exp,
                     div.rest # <<>>)

\* np.sqrt(x), rounded, for x >= 0: the root of the mantissa is taken with
\* an even exponent and at least MantissaBits + 2 binary digits.
FloatSqrt(x) ==
    LET more == MantissaBits + 4 + ((x.exp - (MantissaBits + 4)) % 2)
        scaled == BigShl(x.mant, more)
        r == BigSqrt(scaled)
    IN  RoundToFloat(x.sign, r, (x.exp - more) \div 2,
                     BigMul(r, r) # scaled)

\* -1, 0 or 1 as x < y, x = y or x > y, for floats x, y >= 0.
FloatCmpMagnitude(x, y) ==
    IF x.sign = 0 \/ y.sign = 0 THEN Abs(x.sign) - Abs(y.sign)
    ELSE IF x.exp < y.exp THEN -1
    ELSE IF x.exp > y.exp THEN 1
    ELSE BigCmp(x.mant, y.mant)

\* np.linalg.norm(v): sqrt(dot(v, v)).
NormsOfSquares ==
    [sq \in 0..(2 * MaxCoord * MaxCoord) |-> FloatSqrt(FloatOf(sq))]

FloatNorm(v) == NormsOfSquares[Dot(v, v)]

\* The / of numpy floats: a zero divisor gives nan (0 / 0) or an infinity,
\* with a RuntimeWarning and no exception.
NumpyDivide(num, den) ==
    IF den.sign # 0 THEN [kind |-> "number", value |-> FloatDiv(num, den)]
    ELSE IF num.sign = 0 THEN [kind |-> "nan", value |-> FloatZero]
    ELSE [kind |-> "inf", value |-> FloatZero]

\* What cosine_similarity(vec1, vec2) returns.
CosineSimilarityOf(vec1, vec2) ==
    NumpyDivide(FloatOf(Dot(vec1, vec2)),
                FloatMul(FloatNorm(vec1), FloatNorm(vec2)))

\* Integer pairs.
CosVecs == (-MaxCoord..MaxCoord) \X (-MaxCoord..MaxCoord)

InitCos ==
    /\ pc = "ready" /\ fn = "none" /\ err = "none"
    /\ vector1 \in CosVecs /\ vector2 \in CosVecs
    /\ cosine = [kind |-> "number", value |-> FloatZero]
    /\ NoChunkArgs /\ NoSearchArgs /\ NoBreakArgs /\ NoSplitArgs /\ NoAdjArgs /\ NoPipeArgs

CallCosineSimilarity ==
    /\ pc = "ready"
    /\ pc' = "done" /\ fn' = "cosine_similarity"
    /\ cosine' = CosineSimilarityOf(vector1, vector2)
    /\ UNCHANGED <<err, vector1, vector2>>
    /\ UNCHANGED <<chunkVars, searchVars, breakVars, splitVars, adjVars, pipeVars>>

NextCos == CallCosineSimilarity

SpecCos == InitCos /\ [][NextCos]_vars

(***************************************************************************)
(* The similarities of consecutive sentences, handed to                    *)
(* compute_breakpoints as the notebook does.  A similarity is in           *)
(* hundredths, as compute_breakpoints takes it here.                       *)
(***************************************************************************)
\* [cosine_similarity(embeddings[i], embeddings[i + 1])
\*      for i in range(len(embeddings) - 1)]
AdjacentSimilarities(embs) ==
    LET idx == PyRange(0, Len(embs) - 1, 1)
    IN  [j \in 1..Len(idx) |->
            2 * CosineSimilarity(embs[idx[j] + 1], embs[idx[j] + 2])]

InitAdj ==
    /\ pc = "ready" /\ fn = "none" /\ err = "none"
    /\ sentence_embeddings \in SeqsUpTo(Vecs, MaxSentences)
    /\ similarities = <<>> /\ method = "percentile" /\ threshold = 90
    /\ breakpoints = <<>>
    /\ percentile_of_empty \in {"nan", "IndexError"}
    /\ NoChunkArgs /\ NoSearchArgs /\ NoSplitArgs /\ NoCosArgs /\ NoPipeArgs

\* similarities = [cosine_similarity(embeddings[i], embeddings[i + 1]) ...]
ComputeAdjacentSimilarities ==
    /\ pc = "ready"
    /\ pc' = "similarities" /\ fn' = "adjacent_similarities"
    /\ similarities' = AdjacentSimilarities(sentence_embeddings)
    /\ UNCHANGED <<err, method, threshold, breakpoints, percentile_of_empty>>
    /\ UNCHANGED <<chunkVars, searchVars, splitVars, cosVars, adjVars, pipeVars>>

\* breakpoints = compute_breakpoints(similarities, method="percentile",
\*                                   threshold=90)
BreakpointsOfAdjacent ==
    /\ pc = "similarities"
    /\ fn' = "compute_breakpoints"
    /\ err' = ComputeBreakpointsRaises(similarities, method, threshold,
                                       percentile_of_empty)
    /\ IF err' # "none"
       THEN pc' = "error" /\ UNCHANGED breakpoints
       ELSE pc' = "done"
            /\ breakpoints' = ComputeBreakpoints(similarities, method, threshold)
    /\ UNCHANGED <<similarities, method, threshold, percentile_of_empty>>
    /\ UNCHANGED <<chunkVars, searchVars, splitVars, cosVars, adjVars, pipeVars>>

NextAdj == ComputeAdjacentSimilarities \/ BreakpointsOfAdjacent

SpecAdj == InitAdj /\ [][NextAdj]_vars

(***************************************************************************)
(* The two pipelines step by step, with the calls to the provider: the     *)
(* contextual-headers notebook (chunk_text_with_headers, the embedding     *)
(* loop, semantic_search) and the simple-RAG notebook (chunk_text, one     *)
(* create_embeddings call for all chunks, semantic_search).  A provider    *)
(* call returns or raises; nothing in the notebooks catches what it        *)
(* raises.  fn is the function or cell that is running.                    *)
(***************************************************************************)
\* A mutant of ProviderCall: a call that raised is made once more.
ProviderCallRetried(log, op, input, ok, output) ==
    LET call == [op |-> op, input |-> input, ok |-> ok, output |-> output]
    IN  IF ok THEN Append(log, call) ELSE log \o <<call, call>>

\* client.embeddings.create(...) / client.chat.completions.create(...):
\* one call, entered in the log of calls with what it returned.
ProviderCall(log, op, input, ok, output) ==
    Append(log, [op |-> op, input |-> input, ok |-> ok, output |-> output])

QueryText == <<"?">>

PipeTexts == {SubSeq(Letters, 1, len) : len \in 0..MaxPipeLen}

InitPipe ==
    /\ pc = "chunking" /\ err = "none"
    /\ fn \in {"chunk_text_with_headers", "chunk_text"}
    /\ text \in PipeTexts
    /\ n \in 1..MaxPipeN /\ overlap \in 0..MaxPipeN
    /\ chunks = <<>>
    /\ k \in 0..MaxPipeK
    /\ query_embedding = <<1, 0>> /\ text_chunks = <<>> /\ embeddings = <<>>
    /\ top_indices = <<>> /\ result = <<>>
    /\ NoBreakArgs /\ NoSplitArgs /\ NoCosArgs /\ NoAdjArgs /\ NoPipeArgs

\* range(0, len(text), n - overlap) with a step of 0.
RangeRaises ==
    /\ pc = "chunking" /\ n - overlap = 0
    /\ pc' = "error" /\ err' = "ValueError"
    /\ UNCHANGED <<fn, chunkVars, searchVars, breakVars, splitVars, cosVars>>
    /\ UNCHANGED <<adjVars, pipeVars>>

\* A mutant of NextWindow: the window starts one character late.
NextWindowLate ==
    LET i == PyRange(0, Len(text), n - overlap)[Len(chunks) + 1]
    IN  PySlice(text, i + 1, i + n)

\* The window of the loop's next pass: chunk = text[i:i + n].
NextWindow ==
    LET i == PyRange(0, Len(text), n - overlap)[Len(chunks) + 1]
    IN  PySlice(text, i, i + n)

InHeaderLoop ==
    /\ pc = "chunking" /\ fn = "chunk_text_with_headers" /\ n - overlap # 0
    /\ Len(chunks) < Len(PyRange(0, Len(text), n - overlap))

\* One pass of the loop of chunk_text_with_headers.
GenerateHeaderReturns ==
    /\ InHeaderLoop
    /\ provider_calls' =
           ProviderCall(provider_calls, "generate_header", NextWindow, TRUE,
                        GenerateChunkHeader(NextWindow))
    /\ chunks' = Append(chunks, [header |-> GenerateChunkHeader(NextWindow),
                                 text |-> NextWindow])
    /\ UNCHANGED <<pc, fn, err, text, n, overlap, text_embedding>>
    /\ UNCHANGED <<searchVars, breakVars, splitVars, cosVars, adjVars>>

\* generate_chunk_header raises: chunk_text_with_headers ends with it.
GenerateHeaderFails ==
    /\ InHeaderLoop
    /\ provider_calls' =
           ProviderCall(provider_calls, "generate_header", NextWindow, FALSE,
                        <<>>)
    /\ pc' = "error" /\ err' = "ProviderError"
    /\ UNCHANGED <<fn, chunkVars, text_embedding>>
    /\ UNCHANGED <<searchVars, breakVars, splitVars, cosVars, adjVars>>

\* return chunks; text_chunks = chunk_text_with_headers(...); embeddings = []
ReturnHeaderChunks ==
    /\ pc = "chunking" /\ fn = "chunk_text_with_headers" /\ n - overlap # 0
    /\ Len(chunks) = Len(PyRange(0, Len(text), n - overlap))
    /\ text_chunks' = chunks /\ embeddings' = <<>>
    /\ pc' = "embedding" /\ fn' = "embedding_loop"
    /\ UNCHANGED <<err, chunkVars, query_embedding, k, top_indices, result>>
    /\ UNCHANGED <<breakVars, splitVars, cosVars, adjVars, pipeVars>>

InEmbeddingLoop ==
    /\ fn = "embedding_loop" /\ Len(embeddings) < Len(text_chunks)

\* text_embedding = create_embeddings(chunk["text"])
EmbedTextReturns ==
    /\ pc = "embedding" /\ InEmbeddingLoop
    /\ \E v \in Vecs :
           /\ text_embedding' = v
           /\ provider_calls' =
                  ProviderCall(provider_calls, "embed_text",
                               text_chunks[Len(embeddings) + 1].text, TRUE, v)
    /\ pc' = "embedding_header"
    /\ UNCHANGED <<fn, err, chunkVars, searchVars>>
    /\ UNCHANGED <<breakVars, splitVars, cosVars, adjVars>>

EmbedTextFails ==
    /\ pc = "embedding" /\ InEmbeddingLoop
    /\ provider_calls' =
           ProviderCall(provider_calls, "embed_text",
                        text_chunks[Len(embeddings) + 1].text, FALSE, <<>>)
    /\ pc' = "error" /\ err' = "ProviderError"
    /\ UNCHANGED <<fn, chunkVars, searchVars, text_embedding>>
    /\ UNCHANGED <<breakVars, splitVars, cosVars, adjVars>>

\* header_embedding = create_embeddings(chunk["header"]);
\* embeddings.append({...})
EmbedHeaderReturns ==
    /\ pc = "embedding_header" /\ InEmbeddingLoop
    /\ \E v \in HeaderVecs :
           /\ embeddings' =
                  Append(embeddings,
                         [header |-> text_chunks[Len(embeddings) + 1].header,
                          text |-> text_chunks[Len(embeddings) + 1].text,
                          embedding |-> text_embedding,
                          header_embedding |-> v])
           /\ provider_calls' =
                  ProviderCall(provider_calls, "embed_header",
                               text_chunks[Len(embeddings) + 1].header, TRUE, v)
    /\ pc' = "embedding"
    /\ UNCHANGED <<fn, err, chunkVars, text_embedding>>
    /\ UNCHANGED <<query_embedding, text_chunks, k, top_indices, result>>
    /\ UNCHANGED <<breakVars, splitVars, cosVars, adjVars>>

EmbedHeaderFails ==
    /\ pc = "embedding_header" /\ InEmbeddingLoop
    /\ provider_calls' =
           ProviderCall(provider_calls, "embed_header",
                        text_chunks[Len(embeddings) + 1].header, FALSE, <<>>)
    /\ pc' = "error" /\ err' = "ProviderError"
    /\ UNCHANGED <<fn, chunkVars, searchVars, text_embedding>>
    /\ UNCHANGED <<breakVars, splitVars, cosVars, adjVars>>

\* The query-embedding calls made so far.
QueryCalls ==
    {c \in 1..Len(provider_calls) : provider_calls[c].op = "embed_query"}

\* The corpus of the contextual-headers notebook is built, and a search
\* may run.
HeaderCorpusBuilt ==
    /\ \/ pc = "embedding" /\ fn = "embedding_loop"
             /\ Len(embeddings) = Len(text_chunks)
       \/ pc = "done" /\ fn = "semantic_search_headers"
    /\ Cardinality(QueryCalls) < MaxSearches

\* top_chunks = semantic_search(query, embeddings, k) of the
\* contextual-headers notebook.
SearchHeadersReturns ==
    /\ HeaderCorpusBuilt
    /\ \E q \in QueryVecs :
           /\ query_embedding' = q
           /\ provider_calls' =
                  ProviderCall(provider_calls, "embed_query", QueryText, TRUE, q)
           /\ top_indices' = SortedTopK(AvgScores(q, embeddings), k)
    /\ result' = [j \in 1..Len(top_indices') |->
                     embeddings[top_indices'[j] + 1]]
    /\ pc' = "done" /\ fn' = "semantic_search_headers"
    /\ UNCHANGED <<err, chunkVars, text_chunks, embeddings, k, text_embedding>>
    /\ UNCHANGED <<breakVars, splitVars, cosVars, adjVars>>

\* create_embeddings(query) raises: semantic_search ends with it.
SearchHeadersFails ==
    /\ HeaderCorpusBuilt
    /\ provider_calls' =
           ProviderCall(provider_calls, "embed_query", QueryText, FALSE, <<>>)
    /\ pc' = "error" /\ fn' = "semantic_search_headers"
    /\ err' = "ProviderError"
    /\ UNCHANGED <<chunkVars, searchVars, text_embedding>>
    /\ UNCHANGED <<breakVars, splitVars, cosVars, adjVars>>

\* text_chunks = chunk_text(extracted_text, n, overlap)
ChunkTextReturns ==
    /\ pc = "chunking" /\ fn = "chunk_text" /\ n - overlap # 0
    /\ chunks' = ChunkText(text, n, overlap)
    /\ text_chunks' = chunks'
    /\ pc' = "embedding" /\ fn' = "create_embeddings"
    /\ UNCHANGED <<err, text, n, overlap>>
    /\ UNCHANGED <<query_embedding, embeddings, k, top_indices, result>>
    /\ UNCHANGED <<breakVars, splitVars, cosVars, adjVars, pipeVars>>

\* response = create_embeddings(text_chunks): one call for all chunks, the
\* provider answering with one embedding per input, in input order.
CreateEmbeddingsReturns ==
    /\ pc = "embedding" /\ fn = "create_embeddings"
    /\ \E data \in [1..Len(text_chunks) -> HeaderVecs] :
           /\ embeddings' = [j \in 1..Len(text_chunks) |->
                                [embedding |-> data[j]]]
           /\ provider_calls' =
                  ProviderCall(provider_calls, "embed_chunks", text_chunks,
                               TRUE, data)
    /\ pc' = "embedded"
    /\ UNCHANGED <<fn, err, chunkVars, text_embedding>>
    /\ UNCHANGED <<query_embedding, text_chunks, k, top_indices, result>>
    /\ UNCHANGED <<breakVars, splitVars, cosVars, adjVars>>

CreateEmbeddingsFails ==
    /\ pc = "embedding" /\ fn = "create_embeddings"
    /\ provider_calls' =
           ProviderCall(provider_calls, "embed_chunks", text_chunks, FALSE,
                        <<>>)
    /\ pc' = "error" /\ err' = "ProviderError"
    /\ UNCHANGED <<fn, chunkVars, searchVars, text_embedding>>
    /\ UNCHANGED <<breakVars, splitVars, cosVars, adjVars>>

\* The corpus of the simple-RAG notebook is built, and a search may run.
SimpleCorpusBuilt ==
    /\ \/ pc = "embedded" /\ fn = "create_embeddings"
       \/ pc = "done"
             /\ fn \in {"semantic_search_simple", "retrieve_relevant_chunks"}
    /\ Cardinality(QueryCalls) < MaxSearches

\* top_chunks = semantic_search(query, text_chunks, response.data, k) of
\* the simple-RAG notebook.
SearchSimpleReturns ==
    /\ SimpleCorpusBuilt
    /\ \E q \in QueryVecs :
           /\ query_embedding' = q
           /\ provider_calls' =
                  ProviderCall(provider_calls, "embed_query", QueryText, TRUE, q)
           /\ top_indices' = SortedTopK(TextScores(q, embeddings), k)
    /\ result' = [j \in 1..Len(top_indices') |->
                     text_chunks[top_indices'[j] + 1]]
    /\ pc' = "done" /\ fn' = "semantic_search_simple"
    /\ UNCHANGED <<err, chunkVars, text_chunks, embeddings, k, text_embedding>>
    /\ UNCHANGED <<breakVars, splitVars, cosVars, adjVars>>

SearchSimpleFails ==
    /\ SimpleCorpusBuilt
    /\ provider_calls' =
           ProviderCall(provider_calls, "embed_query", QueryText, FALSE, <<>>)
    /\ pc' = "error" /\ fn' = "semantic_search_simple"
    /\ err' = "ProviderError"
    /\ UNCHANGED <<chunkVars, searchVars, text_embedding>>
    /\ UNCHANGED <<breakVars, splitVars, cosVars, adjVars>>

\* retrieve_relevant_chunks(query, text_chunks, chunk_embeddings, k) of the
\* chunk-size notebook, over the same corpus.
RetrieveChunksReturns ==
    /\ SimpleCorpusBuilt
    /\ \E q \in QueryVecs :
           /\ query_embedding' = q
           /\ provider_calls' =
                  ProviderCall(provider_calls, "embed_query", QueryText, TRUE, q)
           /\ LET scores == TextScores(q, embeddings)
              IN  \E order \in ArgsortOutcomes([i \in 1..Len(scores) |->
                                                   scores[i].score]) :
                      top_indices' = ArgsortTopK(order, k)
    /\ result' = [j \in 1..Len(top_indices') |->
                     text_chunks[top_indices'[j] + 1]]
    /\ pc' = "done" /\ fn' = "retrieve_relevant_chunks"
    /\ UNCHANGED <<err, chunkVars, text_chunks, embeddings, k, text_embedding>>
    /\ UNCHANGED <<breakVars, splitVars, cosVars, adjVars>>

RetrieveChunksFails ==
    /\ SimpleCorpusBuilt
    /\ provider_calls' =
           ProviderCall(provider_calls, "embed_query", QueryText, FALSE, <<>>)
    /\ pc' = "error" /\ fn' = "retrieve_relevant_chunks"
    /\ err' = "ProviderError"
    /\ UNCHANGED <<chunkVars, searchVars, text_embedding>>
    /\ UNCHANGED <<breakVars, splitVars, cosVars, adjVars>>

NextPipe ==
    \/ RangeRaises
    \/ GenerateHeaderReturns
    \/ GenerateHeaderFails
    \/ ReturnHeaderChunks
    \/ EmbedTextReturns
    \/ EmbedTextFails
    \/ EmbedHeaderReturns
    \/ EmbedHeaderFails
    \/ SearchHeadersReturns
    \/ SearchHeadersFails
    \/ ChunkTextReturns
    \/ CreateEmbeddingsReturns
    \/ CreateEmbeddingsFails
    \/ SearchSimpleReturns
    \/ SearchSimpleFails
    \/ RetrieveChunksReturns
    \/ RetrieveChunksFails

SpecPipe == InitPipe /\ [][NextPipe]_vars

(***************************************************************************)
(* Claims about compute_breakpoints.                                       *)
(***************************************************************************)
BreakpointsReturned == pc = "done" /\ fn = "compute_breakpoints"

\* C9: whenever compute_breakpoints returns, the indices are strictly
\* increasing and each lies in 0 .. len(similarities) - 1.
C9_AscendingInRange ==
    BreakpointsReturned =>
        /\ \A j \in 1..(Len(breakpoints) - 1) :
               breakpoints[j] < breakpoints[j + 1]
        /\ \A j \in 1..Len(breakpoints) :
               breakpoints[j] \in 0..(Len(similarities) - 1)

C9_Witness ==
    /\ BreakpointsReturned /\ method = "standard_deviation"
    /\ Len(breakpoints) >= 2
    /\ breakpoints[Len(breakpoints)] = Len(similarities) - 1

\* The order statistic of 0-based rank r, by counting: the value with at
\* most r similarities below it and more than r not above it.
OrderStatistic(r) ==
    CHOOSE v \in {similarities[i] : i \in 1..Len(similarities)} :
        /\ Cardinality({i \in 1..Len(similarities) : similarities[i] < v}) <= r
        /\ Cardinality({i \in 1..Len(similarities) : similarities[i] <= v}) > r

\* 100 times the threshold-th percentile of similarities, interpolated
\* linearly between the two order statistics around rank
\* threshold/100 * (len - 1).
LinearPercentileTimes100 ==
    LET rank == threshold * (Len(similarities) - 1)
        lower == rank \div 100
        upper == Min(lower + 1, Len(similarities) - 1)
    IN  (100 - (rank % 100)) * OrderStatistic(lower)
            + (rank % 100) * OrderStatistic(upper)

\* C10: with method "percentile", index i is returned if and only if
\* similarities[i] is strictly less than the threshold-th percentile.
C10_PercentileIff ==
    (BreakpointsReturned /\ method = "percentile" /\ similarities # <<>>) =>
        {breakpoints[j] : j \in 1..Len(breakpoints)} =
            {i \in 0..(Len(similarities) - 1) :
                100 * similarities[i + 1] < LinearPercentileTimes100}

C10_Witness ==
    /\ BreakpointsReturned /\ method = "percentile" /\ threshold = 90
    /\ Len(similarities) = 3
    /\ similarities[1] < similarities[2] /\ similarities[3] < similarities[1]
    /\ breakpoints = <<0, 2>>

ScenarioSimilarities == <<90, 95, 20, 92>>

MedianScenario ==
    /\ BreakpointsReturned /\ method = "percentile" /\ threshold = 50
    /\ similarities = ScenarioSimilarities

\* C11 as stated: for similarities [0.9, 0.95, 0.2, 0.92], method percentile
\* and threshold 50, compute_breakpoints returns exactly [2].
C11_ScenarioOnlyIndex2 == MedianScenario => breakpoints = <<2>>

\* C11 amended: for similarities [0.9, 0.95, 0.2, 0.92], method percentile
\* and threshold 50, compute_breakpoints returns exactly [0, 2]: 0.9 and 0.2
\* are both below the median 0.91.
C11_ScenarioAmended ==
    MedianScenario =>
        /\ PercentileTimes100(similarities, threshold) = 100 * 91
        /\ breakpoints = <<0, 2>>

C11_Witness == MedianScenario /\ Len(breakpoints) = 2

SplitDone == pc = "done" /\ fn = "split_into_chunks"

\* C12: with method percentile and threshold 0 compute_breakpoints returns
\* the empty sequence for every non-empty similarity sequence, and
\* split_into_chunks then yields exactly one chunk holding all sentences.
C12_ThresholdZero ==
    (method = "percentile" /\ threshold = 0 /\ similarities # <<>>) =>
        /\ pc # "ready" => (pc = "done" /\ breakpoints = <<>>)
        /\ SplitDone =>
               /\ split_chunks = <<PyJoin(DotSpace, sentences)>>
               /\ chunk_slices = <<sentences>>

C12_Witness ==
    /\ SplitDone /\ method = "percentile" /\ threshold = 0
    /\ similarities = <<90, 20, 95>>
    /\ breakpoints = <<>> /\ Len(split_chunks) = 1
    /\ Len(chunk_slices[1]) = 4

BreakpointSet == {breakpoints[j] : j \in 1..Len(breakpoints)}

SimilarityIndices == 0..(Len(similarities) - 1)

\* N * x - S per similarity x, N the number and S the sum of similarities:
\* N times the deviation of x from the mean.
Deviations ==
    [i \in 1..Len(similarities) |->
        Len(similarities) * similarities[i] - Sum(similarities)]

\* sim < mean - threshold * stddev, stddev the population standard
\* deviation sqrt(sum((x - mean)^2) / N): with d the deviations above, this
\* is threshold * sqrt(sum(d^2) / N) < -d[i], compared by squares.
BelowMeanMinusThresholdStd(i) ==
    LET count == Len(similarities)
        squares == Sum([j \in 1..count |-> Deviations[j] * Deviations[j]])
        gap == 0 - Deviations[i]
    IN  IF threshold >= 0
        THEN gap > 0 /\ threshold * threshold * squares < count * gap * gap
        ELSE gap > 0 \/ threshold * threshold * squares > count * gap * gap

\* C13: with method "standard_deviation", index i is returned if and only if
\* similarities[i] < mean - threshold * stddev, threshold a multiplier of the
\* population standard deviation.
C13_StdDevIff ==
    (BreakpointsReturned /\ method = "standard_deviation") =>
        BreakpointSet =
            {i \in SimilarityIndices : BelowMeanMinusThresholdStd(i + 1)}

C13_Witness ==
    /\ BreakpointsReturned /\ method = "standard_deviation" /\ threshold = 1
    /\ similarities = ScenarioSimilarities
    /\ breakpoints = <<2>>

\* 100 times the q-th percentile of similarities, interpolated linearly
\* between the order statistics around rank q/100 * (len - 1).
LinearPercentileAt(q) ==
    LET rank == q * (Len(similarities) - 1)
        lower == rank \div 100
        upper == Min(lower + 1, Len(similarities) - 1)
    IN  (100 - (rank % 100)) * OrderStatistic(lower)
            + (rank % 100) * OrderStatistic(upper)

\* C14: with method "interquartile", index i is returned if and only if
\* similarities[i] < q1 - 1.5 * (q3 - q1), q1 and q3 the 25th and 75th
\* percentiles; the threshold argument plays no part.
C14_InterquartileIff ==
    (BreakpointsReturned /\ method = "interquartile" /\ similarities # <<>>) =>
        BreakpointSet =
            {i \in SimilarityIndices :
                2 * 100 * similarities[i + 1]
                    < 5 * LinearPercentileAt(25) - 3 * LinearPercentileAt(75)}

C14_Witness ==
    /\ BreakpointsReturned /\ method = "interquartile" /\ threshold = 101
    /\ similarities = <<90, 92, 20, 95>>
    /\ breakpoints = <<2>>

\* C15: with any method name other than "percentile", "standard_deviation"
\* and "interquartile", compute_breakpoints fails with a ValueError and
\* returns no breakpoint sequence, whatever similarities and threshold are.
C15_InvalidMethodFails ==
    (pc # "ready"
        /\ method \notin {"percentile", "standard_deviation", "interquartile"})
        => (pc = "error" /\ err = "ValueError" /\ breakpoints = <<>>)

C15_Witness ==
    /\ pc = "error" /\ err = "ValueError" /\ method = "iqr"
    /\ similarities = ScenarioSimilarities /\ threshold = 90

(***************************************************************************)
(* Claims about chunk_text.                                                *)
(***************************************************************************)
CeilDiv(a, b) == (a + b - 1) \div b

ChunkTextReturned == pc = "done" /\ fn = "chunk_text"

ValidWindowArgs == 0 <= overlap /\ overlap < n

TenLetters == SubSeq(Letters, 1, 10)

\* C5: for 0 <= overlap < n, chunk_text returns exactly the windows
\* text[j*step : j*step + n], j = 0 .. ceil(len(text)/step) - 1, with
\* step = n - overlap, in that order; chunk_text("abcdefghij", 4, 1) is
\* ["abcd", "defg", "ghij", "j"].
C5_Windows ==
    (ChunkTextReturned /\ ValidWindowArgs) =>
        LET step == n - overlap
            count == CeilDiv(Len(text), step)
        IN  /\ Len(chunks) = count
            /\ \A j \in 0..(count - 1) :
                   LET last == Min(j * step + n, Len(text))
                   IN  chunks[j + 1] =
                           [i \in 1..(last - j * step) |-> text[j * step + i]]
            /\ (text = TenLetters /\ n = 4 /\ overlap = 1) =>
                   chunks = << <<"a", "b", "c", "d">>, <<"d", "e", "f", "g">>,
                               <<"g", "h", "i", "j">>, <<"j">> >>

C5_Witness ==
    /\ ChunkTextReturned
    /\ text = TenLetters /\ n = 4 /\ overlap = 1
    /\ Len(chunks) = 4 /\ chunks[4] = <<"j">>

\* C6: chunk_text and chunk_text_with_headers fail whenever overlap >= n or
\* n <= 0; for no such pair of parameters is a list of windows returned.
C6_InvalidConfigFails ==
    (pc # "ready" /\ (overlap >= n \/ n <= 0)) => pc = "error"

RECURSIVE Concat(_)
Concat(ss) == IF ss = <<>> THEN <<>> ELSE Head(ss) \o Concat(Tail(ss))

\* The first window whole, every later one without its first overlap
\* characters.
OverlapRemoved ==
    [j \in 1..Len(chunks) |->
        IF j = 1 THEN chunks[j] ELSE PySliceFrom(chunks[j], overlap)]

\* C7: for n > overlap >= 0, the first window whole followed by every later
\* window without its first overlap characters is the text again.
C7_Reconstruct ==
    (ChunkTextReturned /\ ValidWindowArgs) => Concat(OverlapRemoved) = text

C7_Witness ==
    /\ ChunkTextReturned /\ ValidWindowArgs
    /\ overlap >= 2 /\ Len(chunks) >= 3
    /\ Len(chunks[Len(chunks)]) < overlap
    /\ Concat(OverlapRemoved) = text

\* The positions of text window j holds: from the loop's offset, as many as
\* the window has characters.
WindowSpan(j) ==
    LET offsets == PyRange(0, Len(text), n - overlap)
    IN  {offsets[j] + i : i \in 0..(Len(chunks[j]) - 1)}

Shared(i, j) == Cardinality(WindowSpan(i) \cap WindowSpan(j))

Covered ==
    \A p \in 0..(Len(text) - 1) : \E j \in 1..Len(chunks) : p \in WindowSpan(j)

\* C8 as stated: the windows cover every position of text, and two windows
\* share characters only when adjacent, and then at most overlap characters.
C8_DisjointUnlessAdjacent ==
    (ChunkTextReturned /\ ValidWindowArgs) =>
        /\ Covered
        /\ \A i, j \in 1..Len(chunks) :
               (i < j /\ Shared(i, j) > 0) =>
                   (j = i + 1 /\ Shared(i, j) <= overlap)

\* C8 amended: the windows cover every position of text, adjacent windows
\* share at most overlap characters, and windows that are not adjacent share
\* characters only when 2 * overlap > n.
C8_SpansAmended ==
    (ChunkTextReturned /\ ValidWindowArgs) =>
        /\ Covered
        /\ \A i, j \in 1..Len(chunks) :
               /\ j = i + 1 => Shared(i, j) <= overlap
               /\ (i + 1 < j /\ Shared(i, j) > 0) => 2 * overlap > n

C8_Witness ==
    /\ ChunkTextReturned /\ ValidWindowArgs
    /\ 2 * overlap <= n /\ overlap >= 1 /\ Len(chunks) >= 3
    /\ Shared(1, 2) = overlap /\ Shared(1, 3) = 0
    /\ Covered

(***************************************************************************)
(* Claims about split_into_chunks.                                         *)
(***************************************************************************)
\* C17: for every sentence list, the empty one included, and every
\* breakpoint list, split_into_chunks returns len(breakpoints) + 1 chunks.
C17_ChunkCount ==
    SplitDone =>
        (Len(split_chunks) = Len(breakpoints) + 1 /\ Len(split_chunks) >= 1)

C17_Witness ==
    /\ SplitDone /\ sentences = <<>> /\ Len(breakpoints) = 2
    /\ Len(split_chunks) = 3

\* Strictly increasing breakpoints, each in 0 .. len(sentences) - 2.
ValidBreakpoints ==
    /\ \A j \in 1..(Len(breakpoints) - 1) : breakpoints[j] < breakpoints[j + 1]
    /\ \A j \in 1..Len(breakpoints) :
           breakpoints[j] \in 0..(Len(sentences) - 2)

\* The 0-based index of the first sentence of chunk j (1-based).
FirstOf(j) == IF j = 1 THEN 0 ELSE breakpoints[j - 1] + 1

\* The 0-based index of the last sentence of chunk j (1-based).
LastOf(j) ==
    IF j = Len(breakpoints) + 1 THEN Len(sentences) - 1 ELSE breakpoints[j]

\* Chunk j is made of sentences FirstOf(j) .. LastOf(j), and every sentence
\* lies in exactly one chunk, in order.
ChunksPartitionSentences ==
    /\ Len(chunk_slices) = Len(breakpoints) + 1
    /\ \A j \in 1..Len(chunk_slices) :
           /\ chunk_slices[j] =
                  [i \in 1..(LastOf(j) - FirstOf(j) + 1) |->
                      sentences[FirstOf(j) + i]]
           /\ split_chunks[j] =
                  IF j = Len(chunk_slices)
                  THEN PyJoin(DotSpace, chunk_slices[j])
                  ELSE PyJoin(DotSpace, chunk_slices[j]) \o <<".">>
    /\ \A i \in 0..(Len(sentences) - 1) :
           Cardinality({j \in 1..Len(chunk_slices) :
                            FirstOf(j) <= i /\ i <= LastOf(j)}) = 1
    /\ Concat(chunk_slices) = sentences

\* C18 as stated: given strictly increasing breakpoints in
\* 0 .. len(sentences) - 2, chunk j holds the sentences after breakpoint
\* j - 1 up to and including breakpoint j, every sentence belongs to exactly
\* one chunk, order is preserved, and no chunk is without a sentence.
C18_Partition ==
    (SplitDone /\ ValidBreakpoints) =>
        /\ ChunksPartitionSentences
        /\ \A j \in 1..Len(chunk_slices) : chunk_slices[j] # <<>>

\* C18 amended: the same, with no chunk without a sentence provided the
\* sentence list is not empty.
C18_PartitionAmended ==
    (SplitDone /\ ValidBreakpoints) =>
        /\ ChunksPartitionSentences
        /\ sentences # <<>> =>
               \A j \in 1..Len(chunk_slices) : chunk_slices[j] # <<>>

C18_Witness ==
    /\ SplitDone /\ ValidBreakpoints
    /\ Len(sentences) = 4 /\ breakpoints = <<0, 2>>
    /\ Len(chunk_slices[2]) = 2 /\ Len(chunk_slices[3]) = 1

\* C19: for sentences = text.split(". ") and strictly increasing breakpoints
\* in 0 .. len(sentences) - 2, the chunks joined with a single space are the
\* text again; "A. B. C. D." splits into ["A", "B", "C", "D."] and with
\* breakpoints [1] gives ["A. B.", "C. D."].
C19_RoundTrip ==
    /\ (pc = "sentences" /\ text = ExampleText) =>
           sentences = << <<"A">>, <<"B">>, <<"C">>, <<"D", ".">> >>
    /\ (SplitDone /\ sentences # <<>> /\ ValidBreakpoints) =>
           /\ PyJoin(<<" ">>, split_chunks) = text
           /\ (text = ExampleText /\ breakpoints = <<1>>) =>
                  split_chunks = << <<"A", ".", " ", "B", ".">>,
                                    <<"C", ".", " ", "D", ".">> >>

C19_Witness ==
    /\ SplitDone /\ text = ExampleText /\ breakpoints = <<1>>
    /\ Len(sentences) = 4 /\ Len(split_chunks) = 2
    /\ PyJoin(<<" ">>, split_chunks) = text

(***************************************************************************)
(* Claims about cosine_similarity.                                         *)
(***************************************************************************)
CosineReturned == pc = "done" /\ fn = "cosine_similarity"

\* The norm of v is zero exactly when dot(v, v) is.
ZeroNorm(v) == Dot(v, v) = 0

\* C20: when either input vector has zero norm, cosine_similarity fails
\* with a DegenerateVector error and returns no value (no nan, no infinity,
\* no number).
C20_DegenerateFails ==
    (pc # "ready" /\ (ZeroNorm(vector1) \/ ZeroNorm(vector2))) =>
        (pc = "error" /\ err = "DegenerateVector")

(***************************************************************************)
(* Claims about the similarities of consecutive sentences.                 *)
(***************************************************************************)
\* C21: with fewer than 2 embeddings the computation of the adjacent
\* similarities fails with InsufficientData, and no empty similarity
\* sequence reaches compute_breakpoints; with 2 or more embeddings there
\* are len(embeddings) - 1 similarities, entry i being
\* cosine_similarity(embeddings[i], embeddings[i + 1]).
C21_AdjacentSimilarities ==
    /\ (pc # "ready" /\ Len(sentence_embeddings) < 2) =>
           (fn = "adjacent_similarities" /\ pc = "error"
                /\ err = "InsufficientData")
    /\ (pc = "similarities" /\ Len(sentence_embeddings) >= 2) =>
           /\ Len(similarities) = Len(sentence_embeddings) - 1
           /\ \A i \in 0..(Len(similarities) - 1) :
                  similarities[i + 1] =
                      2 * CosineSimilarity(sentence_embeddings[i + 1],
                                           sentence_embeddings[i + 2])

FloatOne == FloatOf(1)

\* C22: for two vectors of non-zero norm cosine_similarity returns a number
\* in [-1, 1], and the same number with the arguments exchanged.
C22_RangeAndSymmetry ==
    (CosineReturned /\ ~ZeroNorm(vector1) /\ ~ZeroNorm(vector2)) =>
        /\ cosine.kind = "number"
        /\ FloatCmpMagnitude(cosine.value, FloatOne) <= 0
        /\ cosine = CosineSimilarityOf(vector2, vector1)

\* C23: for a non-zero vector v, cosine_similarity(v, v) is exactly 1.0 and
\* cosine_similarity(v, -v) is exactly -1.0.
C23_SelfAndOpposite ==
    (CosineReturned /\ ~ZeroNorm(vector1)) =>
        /\ vector2 = vector1 => cosine.value = FloatOne
        /\ vector2 = <<-vector1[1], -vector1[2]>> =>
               cosine.value = [FloatOne EXCEPT !.sign = -1]

(***************************************************************************)
(* Claims about the header-augmented search.                               *)
(***************************************************************************)
HeaderSearchReturned == pc = "done" /\ fn = "semantic_search_headers"

\* 100 times the arithmetic mean of the query's cosine similarity to the
\* text embedding and to the header embedding of chunk i (0-based).
MeanTimes100(i) ==
    CosineSimilarity(query_embedding, embeddings[i + 1].embedding)
        + CosineSimilarity(query_embedding, embeddings[i + 1].header_embedding)

\* 100 times the query's cosine similarity to the text embedding of chunk i.
TextTimes100(i) ==
    2 * CosineSimilarity(query_embedding, embeddings[i + 1].embedding)

\* C24: the header-augmented semantic_search ranks by the arithmetic mean of
\* the text and header similarities and by nothing else: a chunk with a
\* higher mean is never ranked below (or left out in favour of) a chunk
\* with a lower mean, and the chunks returned are the chunks so ranked.
C24_RankedByMean ==
    HeaderSearchReturned =>
        /\ \A i, j \in ChunkIndices :
               (MeanTimes100(i) > MeanTimes100(j) /\ j \in ReturnedIndices) =>
                   (i \in ReturnedIndices /\ Place(i) < Place(j))
        /\ \A p \in 1..Len(result) :
               /\ result[p].text = text_chunks[top_indices[p] + 1]
               /\ result[p].embedding = embeddings[top_indices[p] + 1].embedding
               /\ result[p].header_embedding =
                      embeddings[top_indices[p] + 1].header_embedding

\* The mean decides against the text similarity: chunk i is returned and
\* chunk j is not, although j is closer to the query by its text alone.
C24_Witness ==
    /\ HeaderSearchReturned /\ k >= 1
    /\ \E i, j \in ChunkIndices :
           /\ i \in ReturnedIndices /\ j \notin ReturnedIndices
           /\ MeanTimes100(i) > MeanTimes100(j)
           /\ TextTimes100(i) < TextTimes100(j)

(***************************************************************************)
(* Claims about the pipelines and their provider calls.                    *)
(***************************************************************************)
SearchFunctions ==
    {"semantic_search_simple", "retrieve_relevant_chunks",
     "semantic_search_headers"}

LastCall == provider_calls[Len(provider_calls)]

\* A call that raised is the last call made, and what it raised is what
\* the running function ended with; chunk_text_with_headers then returned
\* nothing to be assigned.
FailureEndsTheStep ==
    /\ \A c \in 1..Len(provider_calls) :
           ~provider_calls[c].ok =>
               (c = Len(provider_calls) /\ pc = "error"
                    /\ err = "ProviderError")
    /\ (pc = "error" /\ fn = "chunk_text_with_headers") =>
           (text_chunks = <<>> /\ embeddings = <<>> /\ result = <<>>)

\* A step of a search makes one provider call, the query embedding, and a
\* search that ends with an error assigns no result.
SearchCallsOnce ==
    fn' \in SearchFunctions =>
        /\ Len(provider_calls') = Len(provider_calls) + 1
        /\ provider_calls'[Len(provider_calls')].op = "embed_query"
        /\ pc' = "error" =>
               (err' = "ProviderError" /\ UNCHANGED <<top_indices, result>>)

\* C25: a provider failure is propagated unchanged and never retried: each
\* search makes exactly one query-embedding call, and when that call or a
\* header-generation call of chunk_text_with_headers fails, no further
\* provider call is made and no result, partial or otherwise, is handed to
\* the caller.
C25_FailurePropagates == []FailureEndsTheStep /\ [][SearchCallsOnce]_vars

\* A search over two or more chunks whose query embedding could not be had.
C25_Witness ==
    /\ pc = "error" /\ err = "ProviderError" /\ fn = "semantic_search_simple"
    /\ Len(text_chunks) >= 2 /\ result = <<>>
    /\ LastCall.op = "embed_query" /\ ~LastCall.ok

\* chunk_text_with_headers has returned and its value is in text_chunks.
HeaderChunksReturned ==
    fn \in {"embedding_loop", "semantic_search_headers"}

\* The header-generation calls made so far.
HeaderCalls ==
    {c \in 1..Len(provider_calls) : provider_calls[c].op = "generate_header"}

\* C26: the 'text' fields of what chunk_text_with_headers(text, n, overlap)
\* returns are chunk_text(text, n, overlap) element by element; one
\* header-generation call was made per window, in window order; and each
\* header is stored with the window it was generated from.
C26_HeadersExtendChunkText ==
    HeaderChunksReturned =>
        /\ [j \in 1..Len(text_chunks) |-> text_chunks[j].text] =
               ChunkText(text, n, overlap)
        /\ HeaderCalls = 1..Len(text_chunks)
        /\ \A j \in 1..Len(text_chunks) :
               /\ provider_calls[j].input = ChunkText(text, n, overlap)[j]
               /\ provider_calls[j].ok
               /\ text_chunks[j].header = provider_calls[j].output
               /\ DOMAIN text_chunks[j] = {"header", "text"}

\* Three overlapping windows, each with its header.
C26_Witness ==
    /\ HeaderChunksReturned /\ n = 2 /\ overlap = 1
    /\ Len(text_chunks) = 3
    /\ text_chunks[2] = [header |-> <<"#", "b", "c">>, text |-> <<"b", "c">>]

\* The simple-RAG pipeline has embedded its chunks.
SimpleEmbedded ==
    \/ pc = "embedded" /\ fn = "create_embeddings"
    \/ fn \in {"semantic_search_simple", "retrieve_relevant_chunks"}

\* The contextual-headers pipeline is in or past its embedding loop.
InOrPastEmbeddingLoop ==
    fn \in {"embedding_loop", "semantic_search_headers"}

\* The score the pipeline's search gives chunk i (0-based), times 100.
PipeScore(i) ==
    IF fn = "semantic_search_headers" THEN MeanTimes100(i)
    ELSE TextTimes100(i)

\* C27: chunks and embeddings stay index-aligned.  After the one
\* create_embeddings call the embeddings are as many as the chunks and in
\* their order; at every point of the embedding loop of the header pipeline
\* the list holds one complete entry (header, text, embedding,
\* header_embedding) per chunk processed so far, in chunk order; and a
\* search returns, for each score, the chunk whose embedding gave that
\* score.
C27_IndexAligned ==
    /\ SimpleEmbedded =>
           /\ Len(embeddings) = Len(text_chunks)
           /\ provider_calls[1].op = "embed_chunks"
           /\ provider_calls[1].input = text_chunks
           /\ \A j \in 1..Len(text_chunks) :
                  embeddings[j].embedding = provider_calls[1].output[j]
    /\ InOrPastEmbeddingLoop =>
           /\ Len(embeddings) <= Len(text_chunks)
           /\ Len(provider_calls) >= Len(text_chunks) + 2 * Len(embeddings)
           /\ \A j \in 1..Len(embeddings) :
                  LET textCall == provider_calls[Len(text_chunks) + 2 * j - 1]
                      headerCall == provider_calls[Len(text_chunks) + 2 * j]
                  IN  /\ DOMAIN embeddings[j] =
                             {"header", "text", "embedding", "header_embedding"}
                      /\ embeddings[j].header = text_chunks[j].header
                      /\ embeddings[j].text = text_chunks[j].text
                      /\ textCall.op = "embed_text"
                      /\ textCall.input = text_chunks[j].text
                      /\ embeddings[j].embedding = textCall.output
                      /\ headerCall.op = "embed_header"
                      /\ headerCall.input = text_chunks[j].header
                      /\ embeddings[j].header_embedding = headerCall.output
    /\ (pc = "done" /\ fn \in SearchFunctions) =>
           /\ Len(embeddings) = Len(text_chunks)
           /\ \A p \in 1..Len(result) :
                  result[p] = IF fn = "semantic_search_headers"
                              THEN embeddings[top_indices[p] + 1]
                              ELSE text_chunks[top_indices[p] + 1]
           /\ \A p \in 1..(Len(result) - 1) :
                  PipeScore(top_indices[p]) >= PipeScore(top_indices[p + 1])
           /\ \A i \in ChunkIndices \ ReturnedIndices :
                  \A p \in 1..Len(result) :
                      PipeScore(i) <= PipeScore(top_indices[p])

\* A header search over three embedded chunks that returns the last chunk
\* first.
C27_Witness ==
    /\ pc = "done" /\ fn = "semantic_search_headers"
    /\ Len(embeddings) = 3 /\ Len(result) = 2
    /\ top_indices[1] = 2
    /\ result[1].text = text_chunks[3].text

\* A search leaves the collections it is given as they are.
SearchKeepsCorpus ==
    fn' \in SearchFunctions =>
        (text_chunks' = text_chunks /\ embeddings' = embeddings)

\* What a search returned are chunks of the corpus, none of them twice.
ResultFromCorpus ==
    (pc = "done" /\ fn \in SearchFunctions) =>
        /\ \A p \in 1..Len(top_indices) : top_indices[p] \in ChunkIndices
        /\ \A p, q \in 1..Len(top_indices) :
               p # q => top_indices[p] # top_indices[q]
        /\ Len(result) = Len(top_indices)
        /\ \A p \in 1..Len(result) :
               result[p] = IF fn = "semantic_search_headers"
                           THEN embeddings[top_indices[p] + 1]
                           ELSE text_chunks[top_indices[p] + 1]

\* C28: a search leaves the chunk list and the embedding collection it is
\* given unchanged, so that every search of a sequence of searches sees the
\* same collections; every chunk returned is an element of the chunk list,
\* and no chunk index is returned twice.
C28_CorpusUnchanged == []ResultFromCorpus /\ [][SearchKeepsCorpus]_vars

\* A second search over a corpus of three chunks.
C28_Witness ==
    /\ pc = "done" /\ fn \in SearchFunctions
    /\ Cardinality(QueryCalls) = 2
    /\ Len(text_chunks) = 3 /\ Len(result) = 2

(***************************************************************************)
(* The retrieval implementations against each other.                       *)
(***************************************************************************)
\* The scores by the text embeddings, one per chunk.
TextScoreList ==
    LET scores == TextScores(query_embedding, embeddings)
    IN  [i \in 1..Len(scores) |-> scores[i].score]

DistinctScores ==
    \A i, j \in 1..Len(TextScoreList) :
        i # j => TextScoreList[i] # TextScoreList[j]

\* C29: for k >= 1 and pairwise distinct scores, the sort-based
\* semantic_search and the argsort-based retrieve_relevant_chunks /
\* semantic_search return the same chunks in the same order: what either
\* returned is what the other returns for the same arguments.
C29_ImplementationsAgree ==
    (pc = "done" /\ k >= 1 /\ DistinctScores) =>
        /\ fn = "semantic_search_simple" =>
               \A order \in ArgsortOutcomes(TextScoreList) :
                   /\ ArgsortTopK(order, k) = top_indices
                   /\ [j \in 1..Len(ArgsortTopK(order, k)) |->
                          text_chunks[ArgsortTopK(order, k)[j] + 1]] = result
        /\ fn \in {"retrieve_relevant_chunks", "semantic_search_semantic"} =>
               LET sorted ==
                       SortedTopK(TextScores(query_embedding, embeddings), k)
               IN  /\ sorted = top_indices
                   /\ [j \in 1..Len(sorted) |-> text_chunks[sorted[j] + 1]] =
                          result

\* An argsort-based search for the best two of three chunks with distinct
\* scores, the best of them not the first chunk.
C29_Witness ==
    /\ pc = "done" /\ fn = "retrieve_relevant_chunks"
    /\ k = 2 /\ Len(text_chunks) = 3 /\ DistinctScores
    /\ Len(result) = 2 /\ top_indices[1] # 0

(***************************************************************************)
(* The percentile method as the threshold rises.                           *)
(***************************************************************************)
\* The indices compute_breakpoints returns for the same similarities with
\* the percentile method at threshold t.
PercentileBreakpointsAt(t) == ComputeBreakpoints(similarities, "percentile", t)

\* C30: with the percentile method the breakpoint set is monotone in the
\* threshold: every index returned at a threshold t1, 0 <= t1 <= t2 <= 100,
\* is returned at t2, and split_into_chunks makes at least as many chunks
\* at t2 as at t1.
C30_MonotoneInThreshold ==
    ((BreakpointsReturned \/ SplitDone) /\ method = "percentile"
         /\ threshold \in 0..100) =>
        \A t1 \in 0..threshold :
            LET lower == PercentileBreakpointsAt(t1)
            IN  /\ \A j \in 1..Len(lower) : lower[j] \in BreakpointSet
                /\ SplitDone =>
                       Len(SplitIntoChunks(sentences, lower))
                           <= Len(split_chunks)

\* At threshold 90 there are more breakpoints, and more chunks, than at 50,
\* where there are some.
C30_Witness ==
    /\ SplitDone /\ method = "percentile" /\ threshold = 90
    /\ Len(similarities) = 4
    /\ Len(PercentileBreakpointsAt(50)) >= 1
    /\ Len(PercentileBreakpointsAt(50)) < Len(breakpoints)
    /\ Len(split_chunks) = Len(breakpoints) + 1

====
